---- MODULE Spec2Model ----
(***************************************************************************)
(* Model of the couch-rules-engine registry loader (couchLoader.js), the   *)
(* registry unloader (couchUnloader.js / unloadValidators) and the rule    *)
(* metadata helpers (utils/rule-metadata.js), run against a CouchDB        *)
(* database that other clients (the web interface) may write as well.      *)
(*                                                                         *)
(* Strings whose characters matter (versions) are sequences of one-letter  *)
(* strings; timestamps are natural numbers read from the clock `now`.      *)
(***************************************************************************)
EXTENDS Integers, Sequences, FiniteSets, TLC

\* ---------------------------------------------------------------- bounds
NumDefs == 2        \* validator files in the validators directory
MaxPasses == 2      \* loader runs
MaxClock == 1       \* clock ticks
MaxOther == 1       \* writes by other clients of the database
MaxFaults == 1      \* requests that fail in the database or in transport
MaxIdLen == 2       \* characters of an arbitrary file name
MaxPieces == 5      \* pieces a version string under test is put together from
MaxDocs == 1        \* application documents stored

Defs == 1..NumDefs

\* ------------------------------------------------------- JavaScript values
Undefined == "<undefined>"
UndefinedVersion == <<Undefined>>
UndefinedTags == <<Undefined>>
NonArrayTags == <<"<not-an-array>">>
UndefinedDate == -1
InvalidDate == -2

Falsy(x) == x \in {"", Undefined}
FalsyVersion(v) == v = <<>> \/ v = UndefinedVersion
FalsyTags(t) == t = UndefinedTags
FalsyDate(d) == d = UndefinedDate

Or(x, default) == IF Falsy(x) THEN default ELSE x
OrVersion(v, default) == IF FalsyVersion(v) THEN default ELSE v
OrTags(t, default) == IF FalsyTags(t) THEN default ELSE t

V100 == <<"1", ".", "0", ".", "0">>
V10 == <<"1", ".", "0">>

\* ------------------------------------------------ utils/rule-metadata.js
IsDigit(c) == c \in {"0", "1", "2", "3", "4", "5", "6", "7", "8", "9"}
LowerLetters ==
    {"a", "b", "c", "d", "e", "f", "g", "h", "i", "j", "k", "l", "m",
     "n", "o", "p", "q", "r", "s", "t", "u", "v", "w", "x", "y", "z"}
UpperLetters ==
    {"A", "B", "C", "D", "E", "F", "G", "H", "I", "J", "K", "L", "M",
     "N", "O", "P", "Q", "R", "S", "T", "U", "V", "W", "X", "Y", "Z"}
IsIdentChar(c) == IsDigit(c) \/ c \in LowerLetters \/ c \in UpperLetters \/ c \in {"-", "."}

AllDigits(s, lo, hi) == \A i \in lo..hi : IsDigit(s[i])
AllIdent(s, lo, hi) == \A i \in lo..hi : IsIdentChar(s[i])

\* s[lo..hi] is a non-empty run of digits
DigitRun(s, lo, hi) == lo <= hi /\ AllDigits(s, lo, hi)

\* s[lo..hi] is empty, or "-ident", or "+ident", or "-ident+ident"
SemverTail(s, lo, hi) ==
    \/ lo > hi
    \/ /\ s[lo] = "-"
       /\ lo < hi
       /\ \/ AllIdent(s, lo + 1, hi)
          \/ \E p \in (lo + 2)..(hi - 1) :
                /\ s[p] = "+"
                /\ AllIdent(s, lo + 1, p - 1)
                /\ AllIdent(s, p + 1, hi)
    \/ /\ s[lo] = "+"
       /\ lo < hi
       /\ AllIdent(s, lo + 1, hi)

isValidSemanticVersionPrefixed(s) ==
    /\ s # UndefinedVersion
    /\ \E d1 \in 1..Len(s), d2 \in 1..Len(s), e \in 1..Len(s), b \in 1..2 :
          /\ d1 < d2 /\ d2 < e
          /\ s[d1] = "." /\ s[d2] = "."
          /\ b = 2 => s[1] = "v"
          /\ DigitRun(s, b, d1 - 1)
          /\ DigitRun(s, d1 + 1, d2 - 1)
          /\ DigitRun(s, d2 + 1, e)
          /\ SemverTail(s, e + 1, Len(s))

isValidSemanticVersion(s) ==
    /\ s # UndefinedVersion
    /\ \E d1 \in 1..Len(s), d2 \in 1..Len(s), e \in 1..Len(s) :
          /\ d1 < d2 /\ d2 < e
          /\ s[d1] = "." /\ s[d2] = "."
          /\ DigitRun(s, 1, d1 - 1)
          /\ DigitRun(s, d1 + 1, d2 - 1)
          /\ DigitRun(s, d2 + 1, e)
          /\ SemverTail(s, e + 1, Len(s))

createRuleMetadataFixedAuthor(options, clock) ==
    [name |-> options.name,
     description |-> options.description,
     version |-> OrVersion(options.version, V100),
     author |-> "CouchDB Rules Engine",
     tags |-> OrTags(options.tags, <<>>),
     status |-> Or(options.status, "active"),
     created_date |-> clock,
     modified_date |-> clock,
     change_notes |-> Or(options.changeNotes, "Initial implementation")]

createRuleMetadata(options, clock) ==
    [name |-> options.name,
     description |-> options.description,
     version |-> OrVersion(options.version, V100),
     author |-> Or(options.author, "CouchDB Rules Engine"),
     tags |-> OrTags(options.tags, <<>>),
     status |-> Or(options.status, "active"),
     created_date |-> clock,
     modified_date |-> clock,
     change_notes |-> Or(options.changeNotes, "Initial implementation")]

RequiredErrors(metadata) ==
    (IF Falsy(metadata.name) THEN <<"Missing required field: name">> ELSE <<>>)
    \o (IF Falsy(metadata.description) THEN <<"Missing required field: description">> ELSE <<>>)
    \o (IF FalsyVersion(metadata.version) THEN <<"Missing required field: version">> ELSE <<>>)
    \o (IF Falsy(metadata.author) THEN <<"Missing required field: author">> ELSE <<>>)
    \o (IF Falsy(metadata.status) THEN <<"Missing required field: status">> ELSE <<>>)

FormatErrors(metadata) ==
    (IF ~FalsyVersion(metadata.version) /\ ~isValidSemanticVersion(metadata.version)
        THEN <<"Invalid semantic version">> ELSE <<>>)
    \o (IF ~Falsy(metadata.status) /\ metadata.status \notin {"active", "draft", "inactive"}
        THEN <<"Invalid status">> ELSE <<>>)
    \o (IF ~FalsyTags(metadata.tags) /\ metadata.tags = NonArrayTags
        THEN <<"Tags must be an array">> ELSE <<>>)
    \o (IF ~FalsyDate(metadata.created_date) /\ metadata.created_date = InvalidDate
        THEN <<"Invalid date format for created_date">> ELSE <<>>)
    \o (IF ~FalsyDate(metadata.modified_date) /\ metadata.modified_date = InvalidDate
        THEN <<"Invalid date format for modified_date">> ELSE <<>>)

validateMetadataFirstOnly(metadata) ==
    LET errors == RequiredErrors(metadata) \o FormatErrors(metadata)
    IN [isValid |-> Len(errors) = 0,
        errors |-> IF Len(errors) = 0 THEN errors ELSE <<errors[1]>>]

validateMetadata(metadata) ==
    LET errors == RequiredErrors(metadata) \o FormatErrors(metadata)
    IN [isValid |-> Len(errors) = 0, errors |-> errors]

\* Pre-configured options of the shipped validators (no dates, camelCase notes)
VALIDATOR_METADATA ==
    [name |-> "Validator",
     description |-> "Validates eligibility",
     version |-> V100,
     author |-> "CouchDB Rules Engine",
     tags |-> <<"eligibility">>,
     status |-> "active",
     changeNotes |-> "Initial implementation"]

\* ------------------------------------------------------- local definitions
\* What requiring a validator file yields (couchLoader.js lines 49-56, 91):
\*   loadError    require() throws
\*   noFunction   the module exports no function named like the file
\*   helperMeta   metadata = createRuleMetadata(VALIDATOR_METADATA.x)
\*   noMeta       a function and no metadata export
\*   literalMeta  metadata is an object literal that passes validateMetadata
\*   invalidMeta  metadata is an object literal with version "1.0"
Kinds == {"loadError", "noFunction", "helperMeta", "noMeta", "literalMeta", "invalidMeta"}

LiteralMetadata(version) ==
    [name |-> "Validator",
     description |-> "Validates eligibility",
     version |-> version,
     author |-> "Rule Author",
     tags |-> <<"eligibility">>,
     status |-> "active",
     created_date |-> 0,
     modified_date |-> 0,
     change_notes |-> "Initial implementation"]

EmptyMetadata ==
    [name |-> Undefined,
     description |-> Undefined,
     version |-> UndefinedVersion,
     author |-> Undefined,
     tags |-> UndefinedTags,
     status |-> Undefined,
     created_date |-> UndefinedDate,
     modified_date |-> UndefinedDate,
     change_notes |-> Undefined]

\* { ...existingMetadata, ...updates }: a field of updates that is present
\* replaces the field of existingMetadata
Spread(existingMetadata, updates) ==
    [name |-> IF updates.name = Undefined THEN existingMetadata.name ELSE updates.name,
     description |-> IF updates.description = Undefined THEN existingMetadata.description
                     ELSE updates.description,
     version |-> IF updates.version = UndefinedVersion THEN existingMetadata.version
                 ELSE updates.version,
     author |-> IF updates.author = Undefined THEN existingMetadata.author ELSE updates.author,
     tags |-> IF updates.tags = UndefinedTags THEN existingMetadata.tags ELSE updates.tags,
     status |-> IF updates.status = Undefined THEN existingMetadata.status ELSE updates.status,
     created_date |-> IF updates.created_date = UndefinedDate THEN existingMetadata.created_date
                      ELSE updates.created_date,
     modified_date |-> IF updates.modified_date = UndefinedDate
                       THEN existingMetadata.modified_date ELSE updates.modified_date,
     change_notes |-> IF updates.change_notes = Undefined THEN existingMetadata.change_notes
                      ELSE updates.change_notes]

\* updateRuleMetadata at time `clock`: whether it threw, the object returned
\* and the object passed in as it is after the call
updateRuleMetadataStale(existingMetadata, updates, clock) ==
    LET updatedMetadata == Spread(existingMetadata, updates)
    IN IF ~FalsyVersion(updates.version) /\ ~isValidSemanticVersion(updates.version)
       THEN [threw |-> TRUE, error |-> "Invalid semantic version",
             result |-> EmptyMetadata, existing |-> existingMetadata]
       ELSE [threw |-> FALSE, error |-> "",
             result |-> updatedMetadata, existing |-> existingMetadata]

updateRuleMetadata(existingMetadata, updates, clock) ==
    LET updatedMetadata == [Spread(existingMetadata, updates) EXCEPT !.modified_date = clock]
    IN IF ~FalsyVersion(updates.version) /\ ~isValidSemanticVersion(updates.version)
       THEN [threw |-> TRUE, error |-> "Invalid semantic version",
             result |-> EmptyMetadata, existing |-> existingMetadata]
       ELSE [threw |-> FALSE, error |-> "",
             result |-> updatedMetadata, existing |-> existingMetadata]

\* The module object obtained by require(filePath) at time `clock`
validatorModule(k, clock) ==
    [hasFunction |-> k \notin {"loadError", "noFunction"},
     hasMetadata |-> k \in {"helperMeta", "literalMeta", "invalidMeta"},
     metadata |-> CASE k = "helperMeta" -> createRuleMetadata(VALIDATOR_METADATA, clock)
                    [] k = "literalMeta" -> LiteralMetadata(V100)
                    [] k = "invalidMeta" -> LiteralMetadata(V10)
                    [] OTHER -> EmptyMetadata]

\* path.basename(file, '.js') of the d-th file of the validators directory
validatorName(d) ==
    CASE d = 1 -> <<"h", "o", "u", "s", "e", "h", "o", "l", "d", "S", "i", "z", "e">>
      [] d = 2 -> <<"n", "u", "m", "b", "e", "r", "O", "f", "D", "e", "p", "e", "n", "d", "e", "n", "t", "s">>
      [] d = 3 -> <<"I", "n", "t", "e", "r", "v", "i", "e", "w", "C", "o", "m", "p", "l", "e", "t", "e">>
      [] OTHER -> <<"h", "o", "u", "s", "e", "h", "o", "l", "d", "I", "n", "c", "o", "m", "e">>

LowerCase == <<"a", "b", "c", "d", "e", "f", "g", "h", "i", "j", "k", "l", "m",
               "n", "o", "p", "q", "r", "s", "t", "u", "v", "w", "x", "y", "z">>
UpperCase == <<"A", "B", "C", "D", "E", "F", "G", "H", "I", "J", "K", "L", "M",
               "N", "O", "P", "Q", "R", "S", "T", "U", "V", "W", "X", "Y", "Z">>

IsUpper(c) == \E i \in 1..26 : UpperCase[i] = c
toUpperCase(c) ==
    IF \E i \in 1..26 : LowerCase[i] = c
    THEN UpperCase[CHOOSE i \in 1..26 : LowerCase[i] = c]
    ELSE c

\* The characters of a sequence as one string
RECURSIVE Join(_)
Join(s) == IF s = <<>> THEN "" ELSE s[1] \o Join(Tail(s))

\* s.replace(/([A-Z])/g, ' $1')
RECURSIVE SpaceBeforeCapitals(_)
SpaceBeforeCapitals(s) ==
    IF s = <<>> THEN <<>>
    ELSE (IF IsUpper(s[1]) THEN <<" ", s[1]>> ELSE <<s[1]>>) \o SpaceBeforeCapitals(Tail(s))

\* s.replace(/^./, str => str.toUpperCase())
CapitalizeFirst(s) == IF s = <<>> THEN <<>> ELSE <<toUpperCase(s[1])>> \o Tail(s)

DerivedName(name) == Join(CapitalizeFirst(SpaceBeforeCapitals(name)))

\* Variant that synthesizes a two-part version
GeneratedMetadataShortVersion(name, clock) ==
    [name |-> DerivedName(name),
     description |-> "Auto-generated from " \o Join(name) \o ".js",
     version |-> V10,
     author |-> "system",
     tags |-> <<"auto-generated">>,
     status |-> "active",
     created_date |-> clock,
     modified_date |-> clock,
     change_notes |-> Undefined]

\* Metadata synthesized by the loader when the module exports none
GeneratedMetadata(name, clock) ==
    [name |-> DerivedName(name),
     description |-> "Auto-generated from " \o Join(name) \o ".js",
     version |-> V100,
     author |-> "system",
     tags |-> <<"auto-generated">>,
     status |-> "active",
     created_date |-> clock,
     modified_date |-> clock,
     change_notes |-> Undefined]

\* ---------------------------------------------------------- validators/*.js
\* An exported function: if (<condition on doc.field>) throw ({forbidden: reason});
\* return true.  wrap is "String.length" for String(doc.field).length.
\* Variant with the threshold one lower
householdSizeOffByOne ==
    [wrap |-> "", field |-> "householdSize", op |-> "<", bound |-> 2,
     reason |-> "Household size must be greater than 2."]

householdSize ==
    [wrap |-> "", field |-> "householdSize", op |-> "<", bound |-> 3,
     reason |-> "Household size must be greater than 2."]
\* Variant that throws an object without a forbidden message
numberOfDependentsNoReason ==
    [wrap |-> "", field |-> "numberOfDependents", op |-> "<", bound |-> 2, reason |-> ""]

numberOfDependents ==
    [wrap |-> "", field |-> "numberOfDependents", op |-> "<", bound |-> 2,
     reason |-> "The number of dependents in the household must be 1 or more."]
interviewComplete ==
    [wrap |-> "String.length", field |-> "interviewComplete", op |-> "==", bound |-> 0,
     reason |-> "Interview must be completed."]
\* Variant that also refuses an income of exactly the bound
householdIncomeInclusive ==
    [wrap |-> "", field |-> "income", op |-> ">", bound |-> 24999,
     reason |-> "Income must be lower than $25,000"]

householdIncome ==
    [wrap |-> "", field |-> "income", op |-> ">", bound |-> 25000,
     reason |-> "Income must be lower than $25,000"]

\* validatorModule[validatorName] of the d-th file
LocalPredicate(d) ==
    CASE d = 1 -> householdSize
      [] d = 2 -> numberOfDependents
      [] d = 3 -> interviewComplete
      [] OTHER -> householdIncome

\* doc.field is not undefined
Has(doc, field) == field \in DOMAIN doc

\* Variant of String(doc.field) that gives the empty string for undefined
StringEmptyWhenAbsent(doc, field) == IF Has(doc, field) THEN doc[field] ELSE <<>>

\* String(doc.field): the string itself, and "undefined" for undefined
String(doc, field) ==
    IF Has(doc, field) THEN doc[field] ELSE <<"u", "n", "d", "e", "f", "i", "n", "e", "d">>

\* Variant that reads an absent field as 0
ApplyAbsentAsZero(fn, doc) ==
    LET v == IF fn.wrap = "String.length" THEN Len(String(doc, fn.field))
             ELSE IF Has(doc, fn.field) THEN doc[fn.field] ELSE 0
        raises == CASE fn.op = "<" -> v < fn.bound
                    [] fn.op = ">" -> v > fn.bound
                    [] OTHER -> v = fn.bound
    IN IF raises THEN [returns |-> FALSE, forbidden |-> fn.reason]
       ELSE [returns |-> TRUE, forbidden |-> ""]

\* Calling an exported function with a document; undefined compared with a
\* number is false whatever the comparison
Apply(fn, doc) ==
    LET comparable == fn.wrap = "String.length" \/ Has(doc, fn.field)
        v == IF fn.wrap = "String.length" THEN Len(String(doc, fn.field)) ELSE doc[fn.field]
        raises == comparable /\ CASE fn.op = "<" -> v < fn.bound
                                   [] fn.op = ">" -> v > fn.bound
                                   [] OTHER -> v = fn.bound
    IN IF raises THEN [returns |-> FALSE, forbidden |-> fn.reason]
       ELSE [returns |-> TRUE, forbidden |-> ""]

\* Decimal numerals
Digit == <<"0", "1", "2", "3", "4", "5", "6", "7", "8", "9">>
DigitValue(c) == CHOOSE v \in 0..9 : Digit[v + 1] = c

RECURSIVE Digits(_)
Digits(n) == IF n < 10 THEN <<Digit[n + 1]>> ELSE Digits(n \div 10) \o <<Digit[(n % 10) + 1]>>

RECURSIVE NumberAt(_, _, _)
NumberAt(s, lo, hi) == IF lo > hi THEN 0 ELSE NumberAt(s, lo, hi - 1) * 10 + DigitValue(s[hi])

\* Function.prototype.toString: the source text, as its sequence of tokens
Condition(fn) ==
    (IF fn.wrap = "String.length"
     THEN <<"String", "(", "doc", ".", fn.field, ")", ".", "length">>
     ELSE <<"doc", ".", fn.field>>)
    \o <<fn.op>> \o Digits(fn.bound)

toString(fn) ==
    <<"function", "(", "doc", ")", "{", "if", "(">>
    \o Condition(fn)
    \o <<")", "{", "throw", "(", "{", "forbidden", ":", fn.reason, "}", ")", ";", "}",
         "return", "true", ";", "}">>

\* The function a JavaScript engine obtains from such a source text
Compile(src) ==
    LET wrapped == src[8] = "String"
        f == IF wrapped THEN 12 ELSE 10
        o == IF wrapped THEN 16 ELSE 11
        close == CHOOSE i \in (o + 1)..Len(src) :
                    src[i] = ")" /\ \A j \in (o + 1)..(i - 1) : IsDigit(src[j])
    IN [wrap |-> IF wrapped THEN "String.length" ELSE "",
        field |-> src[f],
        op |-> src[o],
        bound |-> NumberAt(src, o + 1, close - 1),
        reason |-> src[close + 7]]

\* Variant that sends the module's first export for every file
ValidationSourceFirstExport(d) == toString(LocalPredicate(1))

\* doc.validate_doc_update = validatorModule[validatorName].toString(): line 88
ValidationSource(d) == toString(LocalPredicate(d))

\* The function the web interface's new-rule form sends (setup.sh line 232)
WebSource == toString(householdIncome)

NoSource == <<>>

\* ------------------------------------------------------------ the database
\* A slot per document id: the current revision number, whether the
\* document is deleted (or never existed) and its rule_metadata.
NoDocument == [rev |-> 0, deleted |-> TRUE, meta |-> EmptyMetadata, source |-> NoSource]
NullDoc == [isNull |-> TRUE, rev |-> 0, meta |-> EmptyMetadata]
NoRequest == [method |-> "none", hasRev |-> FALSE, rev |-> 0, meta |-> EmptyMetadata,
              source |-> NoSource]

Exists(db, d) == ~db[d].deleted

\* GET /{db}/{id}
StoreGet(db, d) ==
    IF Exists(db, d) THEN [status |-> 200, rev |-> db[d].rev, meta |-> db[d].meta]
    ELSE [status |-> 404, rev |-> 0, meta |-> EmptyMetadata]

\* PUT /{db}/{id} and POST /{db} of a document carrying _id
StoreWriteOk(db, d, doc) ==
    IF Exists(db, d) THEN doc.hasRev /\ doc.rev = db[d].rev
    ELSE ~doc.hasRev

StoreWrite(db, d, doc) ==
    IF StoreWriteOk(db, d, doc)
    THEN [db EXCEPT ![d] = [rev |-> db[d].rev + 1, deleted |-> FALSE, meta |-> doc.meta,
                            source |-> doc.source]]
    ELSE db

\* DELETE /{db}/{id}?rev=
StoreDeleteStatus(db, d, rev) ==
    IF ~Exists(db, d) THEN 404
    ELSE IF db[d].rev = rev THEN 200 ELSE 409

StoreDelete(db, d, rev) ==
    IF StoreDeleteStatus(db, d, rev) = 200
    THEN [db EXCEPT ![d] = [rev |-> db[d].rev + 1, deleted |-> TRUE, meta |-> EmptyMetadata,
                            source |-> NoSource]]
    ELSE db

\* -------------------------------------------------------------------- state
VARIABLES
    now,            \* the wall clock read by new Date()
    remote,         \* the database: document slot per validator name
    kind,           \* what each validator file yields when required
    otherWrites,    \* writes made so far by other clients
    faults,         \* requests that failed so far
    pass,           \* number of loader runs started
    pc,             \* loader position
    idx,            \* position of the for loop over validatorFiles
    validatorMod,   \* the module required for the current file
    existingDoc,    \* the loader's existingDoc
    successCount, updateCount, errorCount,
    exitCode,       \* process exit code of the last finished run (-1: none)
    trace,          \* per file, what this run asked the database and got
    quietSince,     \* no fault and no foreign write since this run started
    summaries,      \* per run, the counters and stored ids at its summary
    upc,            \* unloader position
    rows,           \* the unloader's listing: listed revision per id (0: not listed)
    results,        \* the unloader's result per listed row
    uExit,          \* exit code of the unloader (-1: none)
    tally,          \* the unloader's summary: successful and failed
    outstanding,    \* per document id, requests sent and not yet answered
    appDocs,        \* application documents stored in the database
    reply,          \* the answer to the last write of an application document
    call,           \* the last call of a metadata helper and what it gave
    arg             \* the value a caller holds to pass to a helper or a validator

vars == <<now, remote, kind, otherWrites, faults, pass, pc, idx, validatorMod, existingDoc,
          successCount, updateCount, errorCount, exitCode, trace, quietSince, summaries,
          upc, rows, results, uExit, tally, outstanding, appDocs, reply, call, arg>>

unloaderVars == <<upc, rows, results, uExit, tally>>
appVars == <<appDocs, reply>>
helperVars == <<call, arg>>

NoTrace ==
    [outcome |-> "pending", lookup |-> "none", write |-> "none",
     nLookups |-> 0, nWrites |-> 0, found |-> NullDoc, sent |-> NoRequest]

NoSummary == [reached |-> FALSE, created |-> 0, updated |-> 0, failed |-> 0, ids |-> {}]
NoResult == [state |-> "unlisted", success |-> FALSE, status |-> 0, target |-> 0, rev |-> 0]
NoTally == [done |-> FALSE, successful |-> 0, failed |-> 0]

StoredIds(db) == {d \in Defs : Exists(db, d)}

\* A rule record as the web interface creates it (RuleList.createDesignDocument)
WebMetadata(clock) ==
    [name |-> "Validator",
     description |-> "Validates eligibility",
     version |-> V100,
     author |-> "Web Interface",
     tags |-> <<>>,
     status |-> "active",
     created_date |-> clock,
     modified_date |-> clock,
     change_notes |-> "Created via web interface"]

\* Application documents, as the tests build them (mock-data-generator.js)
Person(name, income, size, dependents, interview) ==
    [name |-> name, income |-> income, householdSize |-> size,
     numberOfDependents |-> dependents, interviewComplete |-> interview]

Documents ==
    {Person("Valid Test Person", 20000, 4, 2, <<"t", "r", "u", "e">>),
     Person("High Income Person", 30000, 4, 2, <<"t", "r", "u", "e">>),
     Person("Small Household Person", 20000, 2, 2, <<"t", "r", "u", "e">>),
     Person("Few Dependents Person", 20000, 4, 1, <<"t", "r", "u", "e">>),
     Person("Incomplete Interview Person", 20000, 4, 2, <<>>),
     Person("Multiple Failures", 50000, 1, 0, <<>>)}

NoReply == [status |-> 0, reason |-> "", doc |-> Person("", 0, 0, 0, <<>>)]

NoCall == [op |-> "none"]

NoArg == <<>>

InitCommon ==
    /\ now = 0
    /\ otherWrites = 0
    /\ faults = 0
    /\ pass = 0
    /\ idx = 0
    /\ validatorMod = validatorModule("loadError", 0)
    /\ existingDoc = NullDoc
    /\ successCount = 0 /\ updateCount = 0 /\ errorCount = 0
    /\ exitCode = -1
    /\ trace = [d \in Defs |-> NoTrace]
    /\ quietSince = 1
    /\ summaries = [p \in 1..MaxPasses |-> NoSummary]
    /\ rows = [d \in Defs |-> 0]
    /\ results = [d \in Defs |-> NoResult]
    /\ uExit = -1
    /\ tally = NoTally
    /\ outstanding = [d \in Defs |-> 0]
    /\ appDocs = <<>>
    /\ reply = NoReply
    /\ call = NoCall

InitProcesses ==
    /\ arg = NoArg
    /\ InitCommon

\* A loader started against an empty database
Init ==
    /\ remote = [d \in Defs |-> NoDocument]
    /\ kind \in [Defs -> Kinds]
    /\ pc = "idle" /\ upc = "off"
    /\ InitProcesses

\* An unloader started against a database holding any of the rule records
InitUnload ==
    /\ remote \in [Defs -> {NoDocument, [rev |-> 1, deleted |-> FALSE, meta |-> WebMetadata(0),
                                       source |-> WebSource]}]
    /\ kind = [d \in Defs |-> "helperMeta"]
    /\ pc = "off" /\ upc = "idle"
    /\ InitProcesses

\* ------------------------------------------------------------ environment
Tick ==
    /\ now < MaxClock
    /\ now' = now + 1
    /\ UNCHANGED <<remote, kind, otherWrites, faults, pass, pc, idx, validatorMod, existingDoc,
                   successCount, updateCount, errorCount, exitCode, trace, quietSince,
                   summaries>>
    /\ UNCHANGED <<unloaderVars, appVars, helperVars>>
    /\ UNCHANGED outstanding

Disturbed == quietSince' = pass + 1

\* A request that the database or the network fails
Fault == faults < MaxFaults /\ faults' = faults + 1 /\ Disturbed
NoFault == faults' = faults /\ quietSince' = quietSince

OtherClient(db) ==
    /\ otherWrites < MaxOther
    /\ otherWrites' = otherWrites + 1
    /\ remote' = db
    /\ Disturbed
    /\ UNCHANGED <<now, kind, faults, pass, pc, idx, validatorMod, existingDoc,
                   successCount, updateCount, errorCount, exitCode, trace, summaries>>
    /\ UNCHANGED <<unloaderVars, appVars, helperVars>>
    /\ UNCHANGED outstanding

\* RuleList.createDesignDocument: POST without revision, both dates now
OtherCreate(d) ==
    /\ ~Exists(remote, d)
    /\ OtherClient(StoreWrite(remote, d,
          [hasRev |-> FALSE, rev |-> 0, meta |-> WebMetadata(now), source |-> WebSource]))

\* RuleList.updateDesignDocument: PUT with the current revision, metadata
\* kept, modified_date now
OtherUpdate(d) ==
    /\ Exists(remote, d)
    /\ OtherClient(StoreWrite(remote, d,
          [hasRev |-> TRUE, rev |-> remote[d].rev,
           meta |-> [remote[d].meta EXCEPT !.modified_date = now],
           source |-> remote[d].source]))

\* RuleList.deleteDesignDocument: DELETE with the current revision
OtherDelete(d) ==
    /\ Exists(remote, d)
    /\ OtherClient(StoreDelete(remote, d, remote[d].rev))

\* ------------------------------------------------- couchLoader.js: the run
Record(d, fields) == trace' = [trace EXCEPT ![d] = fields]

\* Variant of the loop that starts the same file again
NextFileAgain == pc' = "require" /\ idx' = idx

\* for (const file of validatorFiles): the position after the current file
NextFile ==
    IF idx = NumDefs
    THEN pc' = "summary" /\ idx' = idx
    ELSE pc' = "require" /\ idx' = idx + 1

\* Variants of the loop that re-fetch after a failure, or stop at it
AfterFailureRetry == "retry"
AfterFailureAbort == "abort"

\* Where the loop goes after a failed iteration: the catch block and the
\* !response.ok branch both fall through to the next file
AfterFailure == "continue"

Leave(where) ==
    CASE where = "continue" -> NextFile
      [] where = "retry" -> pc' = "lookup" /\ idx' = idx
      [] OTHER -> pc' = "summary" /\ idx' = idx

\* HEAD /{db}, then readdir: lines 18-40
CheckDatabase ==
    /\ pc \in {"idle", "exited"}
    /\ pass < MaxPasses
    /\ pass' = pass + 1
    /\ successCount' = 0 /\ updateCount' = 0 /\ errorCount' = 0
    /\ trace' = [d \in Defs |-> NoTrace]
    /\ existingDoc' = NullDoc
    /\ \E ok \in BOOLEAN :
          IF ok
          THEN /\ pc' = "require" /\ idx' = 1
               /\ exitCode' = -1
               /\ NoFault
          ELSE /\ pc' = "exited" /\ idx' = 0
               /\ exitCode' = 1
               /\ faults < MaxFaults /\ faults' = faults + 1
               /\ quietSince' = pass + 2
    /\ UNCHANGED <<now, remote, kind, otherWrites, validatorMod, summaries>>
    /\ UNCHANGED <<unloaderVars, appVars, helperVars>>
    /\ UNCHANGED outstanding

\* require(filePath) and the check of the exported function: lines 44-58
LoadModule ==
    /\ pc = "require"
    /\ LET d == idx
           m == validatorModule(kind[d], now)
       IN /\ validatorMod' = m
          /\ IF kind[d] = "loadError"
             THEN /\ errorCount' = errorCount + 1
                  /\ Record(d, [trace[d] EXCEPT !.outcome = "failed"])
                  /\ Leave(AfterFailure)
             ELSE IF ~m.hasFunction
             THEN /\ errorCount' = errorCount
                  /\ Record(d, [trace[d] EXCEPT !.outcome = "skipped"])
                  /\ NextFile
             ELSE /\ errorCount' = errorCount
                  /\ trace' = trace
                  /\ pc' = "lookup" /\ idx' = idx
    /\ UNCHANGED <<now, remote, kind, otherWrites, faults, pass, existingDoc,
                   successCount, updateCount, exitCode, quietSince, summaries>>
    /\ UNCHANGED <<unloaderVars, appVars, helperVars>>
    /\ UNCHANGED outstanding

\* fetch(docUrl, { method: 'GET' }) is called: lines 60-68
IssueLookup ==
    /\ pc = "lookup"
    /\ pc' = "lookupWait"
    /\ Record(idx, [trace[idx] EXCEPT !.nLookups = @ + 1])
    /\ outstanding' = [outstanding EXCEPT ![idx] = @ + 1]
    /\ UNCHANGED <<now, remote, kind, otherWrites, faults, pass, idx, validatorMod, existingDoc,
                   successCount, updateCount, errorCount, exitCode, quietSince, summaries>>
    /\ UNCHANGED <<unloaderVars, appVars, helperVars>>

\* The GET is answered: lines 65-77
CheckExisting ==
    /\ pc = "lookupWait"
    /\ outstanding' = [outstanding EXCEPT ![idx] = @ - 1]
    /\ LET d == idx
           got == StoreGet(remote, d)
           t == trace[d]
       IN \E answer \in {"store", "errorStatus", "networkError"} :
             CASE answer = "store" /\ got.status = 200 ->
                    /\ existingDoc' = [isNull |-> FALSE, rev |-> got.rev, meta |-> got.meta]
                    /\ Record(d, [t EXCEPT !.lookup = "found",
                                           !.found = [isNull |-> FALSE, rev |-> got.rev,
                                                      meta |-> got.meta]])
                    /\ pc' = "write" /\ idx' = idx
                    /\ NoFault
                    /\ UNCHANGED errorCount
               [] answer = "store" /\ got.status = 404 ->
                    /\ existingDoc' = NullDoc
                    /\ Record(d, [t EXCEPT !.lookup = "notFound"])
                    /\ pc' = "write" /\ idx' = idx
                    /\ NoFault
                    /\ UNCHANGED errorCount
               [] answer = "errorStatus" ->
                    /\ existingDoc' = NullDoc
                    /\ Record(d, [t EXCEPT !.lookup = "errorStatus"])
                    /\ pc' = "write" /\ idx' = idx
                    /\ Fault
                    /\ UNCHANGED errorCount
               [] OTHER ->
                    /\ existingDoc' = NullDoc
                    /\ Record(d, [t EXCEPT !.lookup = "networkError", !.outcome = "failed"])
                    /\ errorCount' = errorCount + 1
                    /\ Leave(AfterFailure)
                    /\ Fault
    /\ UNCHANGED <<now, remote, kind, otherWrites, pass, validatorMod,
                   successCount, updateCount, exitCode, summaries>>
    /\ UNCHANGED <<unloaderVars, appVars, helperVars>>

\* Variant that leaves the module's modified_date as it is
OutgoingMetadataUnrefreshed(name, mod, existing, clock) ==
    IF mod.hasMetadata THEN mod.metadata ELSE GeneratedMetadata(name, clock)

\* The rule_metadata put into the document: lines 90-112
OutgoingMetadata(name, mod, existing, clock) ==
    LET meta == IF mod.hasMetadata THEN mod.metadata ELSE GeneratedMetadata(name, clock)
    IN IF ~existing.isNull THEN [meta EXCEPT !.modified_date = clock] ELSE meta

\* Variant that never copies the found revision
OutgoingRevisionDropped(existing) == [hasRev |-> FALSE, rev |-> 0]

\* The revision put into the document: lines 83-86
OutgoingRevision(existing) ==
    IF ~existing.isNull /\ existing.rev # 0
    THEN [hasRev |-> TRUE, rev |-> existing.rev]
    ELSE [hasRev |-> FALSE, rev |-> 0]

\* const method = existingDoc ? 'PUT' : 'POST': line 115
WriteMethod(existing) == IF ~existing.isNull THEN "PUT" ELSE "POST"

\* Build the document and call fetch(targetUrl, ...): lines 79-127
IssueWrite ==
    /\ pc = "write"
    /\ pc' = "writeWait"
    /\ LET r == OutgoingRevision(existingDoc)
       IN Record(idx, [trace[idx] EXCEPT
                         !.nWrites = @ + 1,
                         !.sent = [method |-> WriteMethod(existingDoc),
                                   hasRev |-> r.hasRev, rev |-> r.rev,
                                   meta |-> OutgoingMetadata(validatorName(idx), validatorMod, existingDoc, now),
                                   source |-> ValidationSource(idx)]])
    /\ outstanding' = [outstanding EXCEPT ![idx] = @ + 1]
    /\ UNCHANGED <<now, remote, kind, otherWrites, faults, pass, idx, validatorMod, existingDoc,
                   successCount, updateCount, errorCount, exitCode, quietSince, summaries>>
    /\ UNCHANGED <<unloaderVars, appVars, helperVars>>

\* The write is answered and the outcome counted: lines 120-147
\* if (existingDoc) updateCount++ else successCount++: line 131
CountsAsUpdateAlways(existing) == TRUE
CountsAsUpdate(existing) == ~existing.isNull

PutDocument ==
    /\ pc = "writeWait"
    /\ outstanding' = [outstanding EXCEPT ![idx] = @ - 1]
    /\ LET d == idx
           doc == trace[d].sent
           t == trace[d]
       IN \E answer \in {"store", "errorStatus", "networkError"} :
             CASE answer = "store" /\ StoreWriteOk(remote, d, doc) ->
                    /\ remote' = StoreWrite(remote, d, doc)
                    /\ IF CountsAsUpdate(existingDoc)
                       THEN /\ updateCount' = updateCount + 1
                            /\ UNCHANGED <<successCount, errorCount>>
                            /\ Record(d, [t EXCEPT !.write = "ok", !.outcome = "updated"])
                       ELSE /\ successCount' = successCount + 1
                            /\ UNCHANGED <<updateCount, errorCount>>
                            /\ Record(d, [t EXCEPT !.write = "ok", !.outcome = "created"])
                    /\ NextFile
                    /\ NoFault
               [] answer = "store" /\ ~StoreWriteOk(remote, d, doc) ->
                    /\ remote' = remote
                    /\ errorCount' = errorCount + 1
                    /\ UNCHANGED <<successCount, updateCount>>
                    /\ NoFault
                    /\ Record(d, [t EXCEPT !.write = "conflict", !.outcome = "failed"])
                    /\ Leave(AfterFailure)
               [] OTHER ->
                    /\ remote' = remote
                    /\ errorCount' = errorCount + 1
                    /\ UNCHANGED <<successCount, updateCount>>
                    /\ Record(d, [t EXCEPT !.write = answer, !.outcome = "failed"])
                    /\ Leave(AfterFailure)
                    /\ Fault
    /\ UNCHANGED <<now, kind, otherWrites, pass, validatorMod, existingDoc,
                   exitCode, summaries>>
    /\ UNCHANGED <<unloaderVars, appVars, helperVars>>

\* if (errorCount > 0) process.exit(1): lines 157-159
ExitSignalNever(errors) == 0
ExitSignal(errors) == IF errors > 0 THEN 1 ELSE 0

\* Summary and exit code: lines 150-159
Summary ==
    /\ pc = "summary"
    /\ pc' = "exited"
    /\ exitCode' = ExitSignal(errorCount)
    /\ summaries' = [summaries EXCEPT ![pass] =
                        [reached |-> TRUE, created |-> successCount, updated |-> updateCount,
                         failed |-> errorCount, ids |-> StoredIds(remote)]]
    /\ UNCHANGED <<now, remote, kind, otherWrites, faults, pass, idx, validatorMod,
                   existingDoc, successCount, updateCount, errorCount, trace, quietSince>>
    /\ UNCHANGED <<unloaderVars, appVars, helperVars>>
    /\ UNCHANGED outstanding

\* --------------------------------------------------- unloadValidators
loaderVars == <<now, kind, pass, pc, idx, validatorMod, existingDoc,
                successCount, updateCount, errorCount, exitCode, trace, summaries>>

Listed(d) == rows[d] # 0
Successful == Cardinality({d \in Defs : Listed(d) /\ results[d].success})
Failed == Cardinality({d \in Defs : Listed(d) /\ ~results[d].success})

\* GET /{db}: the database check
UnloadCheckDatabase ==
    /\ upc = "idle"
    /\ \E answer \in {"ok", "notFound", "errorStatus", "networkError"} :
          CASE answer = "ok" -> upc' = "list" /\ uExit' = uExit /\ NoFault
            [] answer = "notFound" -> upc' = "done" /\ uExit' = 0 /\ Fault
            [] OTHER -> upc' = "done" /\ uExit' = 1 /\ Fault
    /\ UNCHANGED <<remote, otherWrites, rows, results, tally, outstanding>>
    /\ UNCHANGED <<loaderVars, appVars, helperVars>>

\* Variants: every DELETE aimed at the first listed row; no revision sent
DeleteTargetFirst(d) == CHOOSE e \in Defs : Exists(remote, e) /\ \A f \in Defs : Exists(remote, f) => e <= f
DeleteRevisionMissing(listedRev) == 0

\* The id and the revision in deleteUrl: ${url}/${row.id}?rev=${row.value.rev}
DeleteTarget(d) == d
DeleteRevision(listedRev) == listedRev

\* GET /{db}/_design_docs; rows.map issues one DELETE per row
FetchDesignDocs ==
    /\ upc = "list"
    /\ \E answer \in {"ok", "errorStatus", "networkError"} :
          IF answer = "ok"
          THEN /\ rows' = [d \in Defs |-> IF Exists(remote, d) THEN remote[d].rev ELSE 0]
               /\ results' = [d \in Defs |->
                                 IF Exists(remote, d)
                                 THEN [state |-> "pending", success |-> FALSE, status |-> 0,
                                       target |-> DeleteTarget(d),
                                       rev |-> DeleteRevision(remote[d].rev)]
                                 ELSE NoResult]
               /\ outstanding' = [id \in Defs |->
                                     Cardinality({d \in Defs : /\ results'[d].state = "pending"
                                                               /\ results'[d].target = id})]
               /\ IF StoredIds(remote) = {}
                  THEN upc' = "done" /\ uExit' = 0
                  ELSE upc' = "deleting" /\ uExit' = uExit
               /\ NoFault
          ELSE /\ upc' = "done" /\ uExit' = 1
               /\ UNCHANGED <<rows, results, outstanding>>
               /\ Fault
    /\ UNCHANGED <<remote, otherWrites, tally>>
    /\ UNCHANGED <<loaderVars, appVars, helperVars>>

\* Variant that takes every response for a success
DeleteResultOptimistic(status) ==
    [state |-> "done", success |-> TRUE, status |-> status, target |-> 0, rev |-> 0]

\* What a row's promise resolves to for a response: { success, id, status }
DeleteResult(status) ==
    [state |-> "done", success |-> status = 200, status |-> status, target |-> 0, rev |-> 0]

\* DELETE /{db}/{id}?rev= reaches the database and the response is handled
DeleteRow(d) ==
    /\ upc = "deleting"
    /\ results[d].state = "pending"
    /\ LET id == results[d].target
           rev == results[d].rev
           Resolve(r) == [results EXCEPT ![d] = [r EXCEPT !.target = id, !.rev = rev]]
       IN \E answer \in {"store", "errorStatus", "networkError"} :
             CASE answer = "store" ->
                    /\ remote' = StoreDelete(remote, id, rev)
                    /\ results' = Resolve(DeleteResult(StoreDeleteStatus(remote, id, rev)))
                    /\ NoFault
               [] answer = "errorStatus" ->
                    /\ remote' = remote
                    /\ results' = Resolve(DeleteResult(500))
                    /\ Fault
               [] OTHER ->
                    /\ remote' = remote
                    /\ results' = Resolve([DeleteResult(0) EXCEPT !.success = FALSE])
                    /\ Fault
    /\ outstanding' = [outstanding EXCEPT ![results[d].target] = @ - 1]
    /\ UNCHANGED <<otherWrites, upc, rows, uExit, tally>>
    /\ UNCHANGED <<loaderVars, appVars, helperVars>>

\* await Promise.all, then the summary
UnloadSummary ==
    /\ upc = "deleting"
    /\ \A d \in Defs : results[d].state # "pending"
    /\ upc' = "done"
    /\ uExit' = 0
    /\ tally' = [done |-> TRUE, successful |-> Successful, failed |-> Failed]
    /\ UNCHANGED <<remote, otherWrites, faults, quietSince, rows, results, outstanding>>
    /\ UNCHANGED <<loaderVars, appVars, helperVars>>

NextUnload ==
    \/ \E d \in Defs : OtherCreate(d)
    \/ \E d \in Defs : OtherUpdate(d)
    \/ \E d \in Defs : OtherDelete(d)
    \/ UnloadCheckDatabase
    \/ FetchDesignDocs
    \/ \E d \in Defs : DeleteRow(d)
    \/ UnloadSummary

SpecUnload == InitUnload /\ [][NextUnload]_vars

Next ==
    \/ Tick
    \/ \E d \in Defs : OtherCreate(d)
    \/ \E d \in Defs : OtherUpdate(d)
    \/ \E d \in Defs : OtherDelete(d)
    \/ CheckDatabase
    \/ LoadModule
    \/ IssueLookup
    \/ CheckExisting
    \/ IssueWrite
    \/ PutDocument
    \/ Summary

Spec == Init /\ [][Next]_vars

\* ------------------------------------------------- application documents
\* validate_doc_update of design document d, run on a document
Validate(db, d, doc) == Apply(Compile(db[d].source), doc)

\* The design documents whose function throws for a document
Raising(db, doc) == {d \in StoredIds(db) : ~Validate(db, d, doc).returns}

\* The answer to a write: the database calls the functions in an order of its
\* choosing and the first one that throws aborts the write, so the answer
\* carries the message of whichever throwing function comes first
Refusals(db, doc) ==
    {[status |-> 403, reason |-> Validate(db, d, doc).forbidden, doc |-> doc] :
        d \in Raising(db, doc)}

\* POST /{db} of an application document (couchdb-helper insertDocument)
InsertDocument(doc) ==
    /\ upc = "off"
    /\ Len(appDocs) < MaxDocs
    /\ LET refusals == Refusals(remote, doc)
       IN IF refusals = {}
          THEN /\ reply' = [status |-> 201, reason |-> "", doc |-> doc]
               /\ appDocs' = Append(appDocs, doc)
          ELSE /\ reply' \in refusals
               /\ appDocs' = appDocs
    /\ UNCHANGED <<remote, otherWrites, faults, quietSince, outstanding>>
    /\ UNCHANGED <<loaderVars, unloaderVars, helperVars>>

\* The loader and writers of application documents on one database
NextRules ==
    \/ CheckDatabase
    \/ LoadModule
    \/ IssueLookup
    \/ CheckExisting
    \/ IssueWrite
    \/ PutDocument
    \/ Summary
    \/ \E doc \in Documents : InsertDocument(doc)

\* The shipped validators export createRuleMetadata(VALIDATOR_METADATA.x)
InitRules == Init /\ kind = [d \in Defs |-> "helperMeta"]
SpecRules == InitRules /\ [][NextRules]_vars

\* ------------------------------------------------- the metadata helpers
\* Metadata objects a caller may hold at time `clock`
ExistingMetadata(clock) ==
    {createRuleMetadata(VALIDATOR_METADATA, c) : c \in 0..clock} \cup {LiteralMetadata(V100)}

\* Updates a caller may pass: any of version, description, created_date
PatchVersions ==
    {UndefinedVersion, <<>>, V10, V100, <<"2", ".", "0", ".", "0">>, <<"a", "-", "b">>}

Patches ==
    {[EmptyMetadata EXCEPT !.version = v, !.description = t, !.created_date = c] :
        v \in PatchVersions, t \in {Undefined, "Updated description"},
        c \in {UndefinedDate, MaxClock}}

UpdateMetadata(existing, updates) ==
    /\ pc = "off" /\ upc = "off"
    /\ call' = [op |-> "update", input |-> existing, updates |-> updates, at |-> now,
                out |-> updateRuleMetadata(existing, updates, now)]
    /\ UNCHANGED <<remote, otherWrites, faults, quietSince, outstanding>>
    /\ UNCHANGED <<loaderVars, unloaderVars, appVars, arg>>

\* Options passed to createRuleMetadata: absent, given, and for some empty
CreateOptions ==
    [name : {Undefined, "Test Rule"},
     description : {Undefined, "A test validation rule"},
     version : {UndefinedVersion, <<>>, <<"2", ".", "1", ".", "0">>},
     author : {Undefined, "Test Author"},
     tags : {UndefinedTags, <<>>, <<"custom", "test">>},
     status : {Undefined, "draft"},
     changeNotes : {Undefined, "", "Custom change notes"}]

\* createRuleMetadata has no throw statement: the call always returns
CreateMetadata(options) ==
    /\ pc = "off" /\ upc = "off"
    /\ call' = [op |-> "create", options |-> options, at |-> now,
                out |-> [threw |-> FALSE, result |-> createRuleMetadata(options, now)]]
    /\ UNCHANGED <<remote, otherWrites, faults, quietSince, outstanding>>
    /\ UNCHANGED <<loaderVars, unloaderVars, appVars, arg>>

InitMeta ==
    /\ remote = [d \in Defs |-> NoDocument]
    /\ kind = [d \in Defs |-> "helperMeta"]
    /\ pc = "off" /\ upc = "off"
    /\ InitProcesses

NextMeta ==
    \/ Tick
    \/ \E existing \in ExistingMetadata(now), updates \in Patches : UpdateMetadata(existing, updates)
    \/ \E options \in CreateOptions : CreateMetadata(options)

SpecMeta == InitMeta /\ [][NextMeta]_vars

\* Metadata objects a caller may pass to validateMetadata: each field absent,
\* well-formed or malformed
MetadataObjects ==
    [name : {Undefined, "Test Rule"},
     description : {Undefined, "Test description"},
     version : {UndefinedVersion, <<>>, V10, V100},
     author : {Undefined, "CouchDB Rules Engine"},
     tags : {UndefinedTags, NonArrayTags, <<>>},
     status : {Undefined, "active", "invalid-status"},
     created_date : {UndefinedDate, InvalidDate, 0},
     modified_date : {UndefinedDate, InvalidDate, 0},
     change_notes : {"Initial implementation"}]

ValidateMetadata ==
    /\ pc = "off" /\ upc = "off"
    /\ call.op = "none"
    /\ call' = [op |-> "validate", metadata |-> arg, out |-> validateMetadata(arg)]
    /\ UNCHANGED <<remote, otherWrites, faults, quietSince, outstanding>>
    /\ UNCHANGED <<loaderVars, unloaderVars, appVars, arg>>

InitValidate ==
    /\ remote = [d \in Defs |-> NoDocument]
    /\ kind = [d \in Defs |-> "helperMeta"]
    /\ pc = "off" /\ upc = "off"
    /\ arg \in MetadataObjects
    /\ InitCommon

NextValidate == ValidateMetadata

SpecValidate == InitValidate /\ [][NextValidate]_vars

\* Pieces of text a version string is put together from
VersionPieces ==
    {<<"1", ".", "0", ".", "0">>, <<"1">>, <<".">>, <<"-">>, <<"+">>, <<"a">>, <<"v">>, <<"_">>}

RECURSIVE Concat(_)
Concat(pieces) == IF pieces = <<>> THEN <<>> ELSE Head(pieces) \o Concat(Tail(pieces))

VersionStrings ==
    {Concat(pieces) : pieces \in UNION {[1..n -> VersionPieces] : n \in 0..MaxPieces}}

CheckVersion ==
    /\ pc = "off" /\ upc = "off"
    /\ call.op = "none"
    /\ call' = [op |-> "semver", version |-> arg, out |-> isValidSemanticVersion(arg)]
    /\ UNCHANGED <<remote, otherWrites, faults, quietSince, outstanding>>
    /\ UNCHANGED <<loaderVars, unloaderVars, appVars, arg>>

InitSemver ==
    /\ remote = [d \in Defs |-> NoDocument]
    /\ kind = [d \in Defs |-> "helperMeta"]
    /\ pc = "off" /\ upc = "off"
    /\ arg \in VersionStrings
    /\ InitCommon

NextSemver == CheckVersion

SpecSemver == InitSemver /\ [][NextSemver]_vars

\* The four validator files of src/validators
AllValidators == 1..4

\* Documents a test passes to a validator: each checked field absent, at,
\* under or over its threshold
Field(name, values) == {<<>>} \cup {name :> v : v \in values}

TestDocuments ==
    {("name" :> "Test Person") @@ i @@ h @@ n @@ c :
        i \in Field("income", {0, 24999, 25000, 25001}),
        h \in Field("householdSize", {1, 2, 3, 10}),
        n \in Field("numberOfDependents", {0, 1, 2, 8}),
        c \in Field("interviewComplete", {<<>>, <<"t", "r", "u", "e">>,
                                           <<"f", "a", "l", "s", "e">>})}

\* validator.householdSize(doc) and the like, called directly
CallValidator(d) ==
    /\ pc = "off" /\ upc = "off"
    /\ call.op = "none"
    /\ call' = [op |-> "rule", rule |-> d, doc |-> arg, out |-> Apply(LocalPredicate(d), arg)]
    /\ UNCHANGED <<remote, otherWrites, faults, quietSince, outstanding>>
    /\ UNCHANGED <<loaderVars, unloaderVars, appVars, arg>>

\* The functions of a database that holds all four rule records that throw
\* for a document
RaisingShipped(doc) ==
    {d \in AllValidators : ~Apply(Compile(ValidationSource(d)), doc).returns}

\* A write of the document to a database that holds all four rule records
WriteDocument ==
    /\ pc = "off" /\ upc = "off"
    /\ call.op = "none"
    /\ \E answer \in IF RaisingShipped(arg) = {}
                      THEN {[status |-> 201, reason |-> ""]}
                      ELSE {[status |-> 403,
                             reason |-> Apply(Compile(ValidationSource(d)), arg).forbidden] :
                               d \in RaisingShipped(arg)} :
          call' = [op |-> "write", doc |-> arg, out |-> answer]
    /\ UNCHANGED <<remote, otherWrites, faults, quietSince, outstanding>>
    /\ UNCHANGED <<loaderVars, unloaderVars, appVars, arg>>

InitValidators ==
    /\ remote = [d \in Defs |-> NoDocument]
    /\ kind = [d \in Defs |-> "helperMeta"]
    /\ pc = "off" /\ upc = "off"
    /\ arg \in TestDocuments
    /\ InitCommon

NextValidators ==
    \/ \E d \in AllValidators : CallValidator(d)
    \/ WriteDocument

SpecValidators == InitValidators /\ [][NextValidators]_vars

\* The loader keeps running, and every request it sent is answered
LoaderStep == LoadModule \/ IssueLookup \/ CheckExisting \/ IssueWrite \/ PutDocument \/ Summary
\* A directory whose files fail to load, are skipped, or are written
FairKinds == {"loadError", "noFunction", "helperMeta"}
InitFair == Init /\ kind \in [Defs -> FairKinds]

\* The loader's runs alone: what other clients write changes no branch the
\* loop takes but the answer to a write, which may fail here as well
NextFair ==
    \/ CheckDatabase
    \/ LoaderStep

SpecFair == InitFair /\ [][NextFair]_vars /\ WF_vars(LoaderStep)

\* Either tool, started on its own
InitEither == Init \/ InitUnload
NextEither == Next \/ NextUnload
SpecEither == InitEither /\ [][NextEither]_vars

\* ------------------------------------------------------------ properties
\* The current run has finished with file d
Past(d) ==
    \/ pc = "summary"
    \/ pc = "exited" /\ summaries[pass].reached
    \/ pc \in {"require", "lookup", "lookupWait", "write", "writeWait"} /\ idx > d

WriteFailures == {"conflict", "errorStatus", "networkError"}

\* C1: a write for a file is issued only after its lookup; after a
\* not-found lookup the write is a create (POST) without revision, after a
\* found lookup it is an update (PUT) carrying the revision the lookup returned.
C1_LookupThenWrite ==
    \A d \in Defs :
        /\ trace[d].nWrites > 0 => trace[d].nLookups > 0
        /\ (trace[d].lookup = "notFound" /\ Past(d)) =>
              /\ trace[d].nWrites = 1
              /\ trace[d].sent.method = "POST"
              /\ ~trace[d].sent.hasRev
        /\ (trace[d].lookup = "found" /\ Past(d)) =>
              /\ trace[d].nWrites = 1
              /\ trace[d].sent.method = "PUT"
              /\ trace[d].sent.hasRev
              /\ trace[d].sent.rev = trace[d].found.rev

C1_Witness ==
    \E d, e \in Defs :
        /\ trace[d].lookup = "found" /\ trace[d].write = "ok"
        /\ trace[d].sent.rev = trace[d].found.rev /\ trace[d].sent.rev > 0
        /\ trace[e].lookup = "notFound" /\ trace[e].write = "ok"

\* C2: a lookup that fails otherwise than by not-found makes the file FAILED
\* and no write is issued for it in that run.
C2_LookupFailureNoWrite ==
    \A d \in Defs :
        trace[d].lookup \in {"errorStatus", "networkError"} =>
            /\ trace[d].nWrites = 0
            /\ Past(d) => trace[d].outcome = "failed"

\* C3: every update write carries the created_date of the record found by
\* the lookup.
C3_UpdateKeepsCreatedDate ==
    \A d \in Defs :
        trace[d].sent.method = "PUT" =>
            trace[d].sent.meta.created_date = trace[d].found.meta.created_date

C5_SecondRunAllUpdated ==
    \A p \in 2..MaxPasses :
        (/\ summaries[p].reached /\ summaries[p - 1].reached
         /\ quietSince < p
         /\ summaries[p - 1].failed = 0) =>
            /\ summaries[p].created = 0
            /\ summaries[p].updated = NumDefs
            /\ summaries[p].failed = 0
            /\ summaries[p].ids = summaries[p - 1].ids

\* C6: a delete answered 404 is neither a failure nor a successful delete.
C6_NotFoundIsSatisfied ==
    upc = "done" =>
        /\ Failed = Cardinality({d \in Defs : Listed(d) /\ results[d].status \notin {200, 404}})
        /\ Successful = Cardinality({d \in Defs : Listed(d) /\ results[d].status = 200})

\* C7: at the end of every run created + updated + failed is the number of
\* validator files.
C7_EveryFileCounted ==
    \A p \in 1..MaxPasses :
        summaries[p].reached =>
            summaries[p].created + summaries[p].updated + summaries[p].failed = NumDefs

\* C8: no write carries metadata that fails validateMetadata, and a file
\* with such metadata is counted as failed.
C8_InvalidMetadataNotWritten ==
    \A d \in Defs :
        /\ trace[d].nWrites > 0 => validateMetadata(trace[d].sent.meta).isValid
        /\ (kind[d] = "invalidMeta" /\ Past(d)) => trace[d].outcome = "failed"

\* What the file's own module and its own responses determine
OwnOutcome(d) ==
    CASE kind[d] = "loadError" -> "failed"
      [] kind[d] = "noFunction" -> "skipped"
      [] trace[d].lookup = "networkError" -> "failed"
      [] trace[d].write = "ok" -> (IF trace[d].lookup = "found" THEN "updated" ELSE "created")
      [] OTHER -> "failed"

\* C9: a run that has started on the files reaches its summary with every
\* file processed: each file with a validator function got its lookup, each
\* answered lookup got its write, and the file's outcome is the one its own
\* module and responses determine, whatever happened to the other files.
C9_FailureIsolated ==
    (pc = "summary" \/ (pc = "exited" /\ summaries[pass].reached)) =>
        \A d \in Defs :
            /\ trace[d].outcome # "pending"
            /\ kind[d] \notin {"loadError", "noFunction"} => trace[d].nLookups = 1
            /\ trace[d].lookup \in {"found", "notFound", "errorStatus"} => trace[d].nWrites = 1
            /\ trace[d].outcome = OwnOutcome(d)

C9_Witness ==
    /\ pc = "exited" /\ summaries[pass].reached
    /\ \E d, e \in Defs :
          /\ d < e
          /\ trace[d].outcome = "failed"
          /\ trace[e].outcome \in {"created", "updated"}

\* C10: an update write carries the clock's time as modified_date; the
\* stored modified_date of a record never decreases and is never earlier
\* than its stored created_date.
C10_ModifiedRefreshed ==
    [][ \A d \in Defs :
           /\ (trace'[d].nWrites = trace[d].nWrites + 1 /\ trace'[d].sent.method = "PUT") =>
                 trace'[d].sent.meta.modified_date = now
           /\ (Exists(remote, d) /\ Exists(remote', d)) =>
                 remote'[d].meta.modified_date >= remote[d].meta.modified_date
           /\ Exists(remote', d) =>
                 remote'[d].meta.modified_date >= remote'[d].meta.created_date ]_vars

C10_Witness ==
    \E d \in Defs :
        /\ trace[d].outcome = "updated"
        /\ trace[d].sent.meta.modified_date > trace[d].found.meta.modified_date
        /\ remote[d].meta = trace[d].sent.meta

ListedIds == {d \in Defs : Listed(d)}

\* C11: every listed row gets one DELETE, aimed at its own id with the
\* listed revision; the summary waits for all of them, a row is a failure
\* exactly when its own response is not a success, and successful + failed
\* is the number of listed rows.
C11_OneDeletePerRow ==
    /\ \A d \in Defs :
          IF Listed(d)
          THEN /\ results[d].state \in {"pending", "done"}
               /\ results[d].target = d
               /\ results[d].rev = rows[d]
               /\ results[d].state = "done" => (results[d].success <=> results[d].status = 200)
          ELSE results[d].state = "unlisted"
    /\ tally.done =>
          /\ \A d \in ListedIds : results[d].state = "done"
          /\ tally.successful = Cardinality({d \in ListedIds : results[d].status = 200})
          /\ tally.successful + tally.failed = Cardinality(ListedIds)

C11_Witness ==
    /\ tally.done
    /\ \E d, e \in ListedIds :
          /\ results[d].status = 409 /\ ~results[d].success
          /\ results[e].status = 200 /\ results[e].success
          /\ Exists(remote, d) /\ ~Exists(remote, e)

\* C12: no document id ever has two requests outstanding: the loader has at
\* most one request outstanding at all, for the current file, its write is
\* issued only after its lookup was answered, and the unloader's concurrent
\* deletes are aimed at pairwise distinct ids.
C12_OneRequestPerId ==
    /\ \A id \in Defs : outstanding[id] <= 1
    /\ upc = "off" =>
          /\ \A id \in Defs :
                outstanding[id] = 1 <=> (pc \in {"lookupWait", "writeWait"} /\ id = idx)
          /\ pc \in {"write", "writeWait"} => trace[idx].lookup # "none"
    /\ pc = "off" =>
          \A id \in Defs :
             outstanding[id] = Cardinality({d \in Defs : /\ results[d].state = "pending"
                                                       /\ results[d].target = id})

C12_Witness ==
    /\ upc = "deleting"
    /\ \E d, e \in Defs :
          /\ d # e
          /\ outstanding[d] = 1 /\ outstanding[e] = 1
          /\ results[d].state = "pending" /\ results[e].state = "pending"

\* C13: a pass that ends with failed > 0 exits non-zero, and a pass that
\* passed the database check and ended with failed = 0 exits with zero.
C13_ExitSignalsFailure ==
    (pc = "exited" /\ pass >= 1 /\ summaries[pass].reached) =>
        /\ summaries[pass].failed = errorCount
        /\ summaries[pass].failed > 0 => exitCode # 0
        /\ summaries[pass].failed = 0 => exitCode = 0

C13_Witness ==
    /\ pc = "exited" /\ pass >= 1 /\ summaries[pass].reached
    /\ summaries[pass].failed > 0 /\ summaries[pass].created > 0
    /\ exitCode = 1

\* C14: on a store without rule records and without another writer or
\* failing request, a pass over definitions with valid metadata reports
\* created = N, updated = 0, failed = 0, and every record then exists with a
\* revision and the status of the local definition.
ValidLocal(d) == kind[d] \in {"helperMeta", "literalMeta"}

IdChars == {"a", "Z", "1", "_"}
Identifiers == UNION {[1..n -> IdChars] : n \in 1..MaxIdLen}

SynthesizedIsValid ==
    \A id \in Identifiers :
       /\ ~Falsy(DerivedName(id))
       /\ \A clock \in 0..MaxClock : validateMetadata(GeneratedMetadata(id, clock)).isValid

Synthesized(d, m) ==
    /\ m.name = DerivedName(validatorName(d))
    /\ m.name \in {"Household Size", "Number Of Dependents", " Interview Complete",
                  "Household Income"}
    /\ m.version = V100
    /\ m.status = "active"
    /\ m.tags = <<"auto-generated">>
    /\ m.author = "system"
    /\ m.created_date >= 0 /\ m.modified_date >= m.created_date
    /\ validateMetadata(m).isValid

C15_SynthesizedMetadata ==
    /\ \A d \in Defs :
          kind[d] = "noMeta" =>
             /\ trace[d].nWrites = 1 => Synthesized(d, trace[d].sent.meta)
             /\ trace[d].write = "ok" =>
                   /\ trace[d].outcome \in {"created", "updated"}
                   /\ Exists(remote, d) /\ otherWrites = 0 => Synthesized(d, remote[d].meta)
             /\ Past(d) /\ trace[d].lookup # "networkError" => trace[d].nWrites = 1
             /\ trace[d].outcome = "failed" =>
                   \/ trace[d].lookup = "networkError"
                   \/ trace[d].write \in WriteFailures
    /\ SynthesizedIsValid

C15_Witness ==
    \E d \in Defs :
       /\ kind[d] = "noMeta"
       /\ trace[d].write = "ok" /\ trace[d].outcome = "created"
       /\ Exists(remote, d)
       /\ remote[d].meta.name = "Number Of Dependents"
       /\ remote[d].meta.description = "Auto-generated from numberOfDependents.js"

\* C16: when every request is answered, a pass that passed the database
\* check reaches its summary; the loop moves forward only, so every file is
\* required, looked up and written at most once and none is visited twice.
Rank(p) ==
    CASE p = "require" -> 0
      [] p = "lookup" -> 1
      [] p = "lookupWait" -> 2
      [] p = "write" -> 3
      [] p = "writeWait" -> 4
      [] p = "summary" -> 5
      [] OTHER -> 6

Position == IF pc \in {"summary", "exited"} THEN 5 * (NumDefs + 1) + Rank(pc) ELSE 5 * idx + Rank(pc)

ForwardSweep ==
    (pass' = pass /\ pc \notin {"idle", "exited"}) =>
        \/ Position' > Position /\ idx' \in {idx, idx + 1}
        \/ UNCHANGED <<pc, idx>>

C16_PassTerminates ==
    /\ [][ForwardSweep]_vars
    /\ [](\A d \in Defs : trace[d].nLookups <= 1 /\ trace[d].nWrites <= 1)
    /\ [](\A d \in Defs : (Past(d) /\ kind[d] \notin {"loadError", "noFunction"})
                             => trace[d].nLookups = 1)
    /\ (pc = "require" ~> (pc = "exited" /\ summaries[pass].reached))

C16_Witness ==
    /\ pc = "exited" /\ pass = 1 /\ summaries[1].reached
    /\ trace[1].outcome = "failed" /\ trace[1].write = "networkError"
    /\ \A d \in Defs \ {1} : trace[d].outcome = "created"

\* The documents the integration tests expect each rule to refuse
ExpectedRefused(d) ==
    CASE d = 1 -> {"Small Household Person", "Multiple Failures"}
      [] d = 2 -> {"Few Dependents Person", "Multiple Failures"}
      [] d = 3 -> {"Incomplete Interview Person", "Multiple Failures"}
      [] OTHER -> {"High Income Person", "Multiple Failures"}

ExpectedReason(d) ==
    CASE d = 1 -> "Household size must be greater than 2."
      [] d = 2 -> "The number of dependents in the household must be 1 or more."
      [] d = 3 -> "Interview must be completed."
      [] OTHER -> "Income must be lower than $25,000"

\* C17: a write of an application document is stored exactly when no rule
\* record present at that moment has a function that throws for it (with no
\* rule record every document is stored); a refused write changes nothing;
\* a write of a rule record is decided by its revision alone.
WriteDecided ==
    appVars' # appVars =>
        LET doc == reply'.doc
        IN /\ doc \in Documents
           /\ reply'.status \in {201, 403}
           /\ reply'.status = 201 <=> Raising(remote, doc) = {}
           /\ reply'.status = 403 <=> \E d \in StoredIds(remote) : doc.name \in ExpectedRefused(d)
           /\ StoredIds(remote) = {} => reply'.status = 201
           /\ reply'.status = 201 => appDocs' = Append(appDocs, doc) /\ remote' = remote
           /\ reply'.status = 403 => appDocs' = appDocs /\ remote' = remote

RuleWriteDecided ==
    (/\ pc = "writeWait" /\ pc' # "writeWait" /\ faults' = faults
     /\ StoreWriteOk(remote, idx, trace[idx].sent)) =>
        /\ Exists(remote', idx)
        /\ remote'[idx].rev = remote[idx].rev + 1
        /\ trace'[idx].write = "ok"

C17_StoredIffNoRuleRaises == [][WriteDecided /\ RuleWriteDecided]_vars

C17_Witness ==
    /\ reply.status = 403
    /\ reply.doc.name = "Small Household Person"
    /\ appDocs = <<>>
    /\ StoredIds(remote) = Defs
    /\ trace[NumDefs].outcome = "created"

\* C18: a refused write reports one reason, and it is the reason of a rule
\* present in the database whose function throws for the document.
OneReason ==
    (appVars' # appVars /\ reply'.status = 403) =>
        /\ reply'.reason # ""
        /\ \E d \in Raising(remote, reply'.doc) :
              reply'.reason = Validate(remote, d, reply'.doc).forbidden
        /\ \E d \in StoredIds(remote) :
              /\ reply'.doc.name \in ExpectedRefused(d)
              /\ reply'.reason = ExpectedReason(d)

C18_OneReasonOfAViolatedRule == [][OneReason]_vars

C18_Witness ==
    /\ reply.status = 403
    /\ reply.doc.name = "Multiple Failures"
    /\ Exists(remote, 1) /\ Exists(remote, 2)
    /\ ~Validate(remote, 1, reply.doc).returns
    /\ reply.reason = ExpectedReason(2)

\* C19: the validate_doc_update written for a file is the source text of the
\* function the file exports, and the stored rule accepts or rejects every
\* document, with the same reason, as a call of that function does.
C19_SourceUnaltered ==
    /\ \A d \in Defs :
          /\ trace[d].nWrites = 1 =>
                /\ trace[d].sent.source = toString(LocalPredicate(d))
                /\ Compile(trace[d].sent.source) = LocalPredicate(d)
          /\ Exists(remote, d) =>
                \A doc \in Documents :
                   Apply(Compile(remote[d].source), doc) = Apply(LocalPredicate(d), doc)
    /\ reply.status = 403 =>
          \E d \in Defs : Apply(LocalPredicate(d), reply.doc) =
                              [returns |-> FALSE, forbidden |-> reply.reason]

C19_Witness ==
    /\ Exists(remote, 2)
    /\ trace[2].write = "ok"
    /\ remote[2].source = toString(numberOfDependents)
    /\ reply.status = 403
    /\ reply.doc.name = "Few Dependents Person"
    /\ reply.reason = "The number of dependents in the household must be 1 or more."

\* C20: updateRuleMetadata throws "Invalid semantic version" for every update
\* whose version is present and is not a semantic version, and the object
\* passed in is then as it was.
C20_InvalidVersionRejected ==
    (/\ call.op = "update"
     /\ call.updates.version # UndefinedVersion
     /\ ~isValidSemanticVersion(call.updates.version)) =>
        /\ call.out.threw
        /\ call.out.error = "Invalid semantic version"
        /\ call.out.existing = call.input

\* C21: an accepted update returns an object with the created_date of the
\* existing metadata, modified_date the current time, every other field from
\* the updates where present and from the existing metadata otherwise, and
\* leaves the existing object as it was.
C21_UpdateKeepsCreatedDate ==
    (call.op = "update" /\ ~call.out.threw) =>
        LET old == call.input
            new == call.out.result
            upd == call.updates
        IN /\ new.created_date = old.created_date
           /\ new.modified_date = call.at
           /\ new.version = (IF upd.version = UndefinedVersion THEN old.version ELSE upd.version)
           /\ new.description = (IF upd.description = Undefined THEN old.description
                                 ELSE upd.description)
           /\ new.name = old.name /\ new.author = old.author /\ new.tags = old.tags
           /\ new.status = old.status /\ new.change_notes = old.change_notes
           /\ call.out.existing = old

\* C22 (as stated): after every successful update the modified_date of the
\* result is strictly greater than the modified_date of the metadata passed in,
\* whatever time has elapsed since it was created or last updated.
C22_ModifiedStrictlyLater ==
    (call.op = "update" /\ ~call.out.threw) =>
        call.out.result.modified_date > call.input.modified_date

\* C22 (amended): after a successful update made when the clock reads later
\* than the modified_date of the metadata passed in, the modified_date of the
\* result is strictly greater; made at the same reading, it is equal.
C22_ModifiedLaterWhenClockAdvanced ==
    (call.op = "update" /\ ~call.out.threw) =>
        /\ call.at > call.input.modified_date =>
               call.out.result.modified_date > call.input.modified_date
        /\ call.at = call.input.modified_date =>
               call.out.result.modified_date = call.input.modified_date

C22_Witness ==
    /\ call.op = "update" /\ ~call.out.threw
    /\ call.at > call.input.modified_date
    /\ call.out.result.modified_date > call.input.modified_date

\* C23: creating metadata from options whose name or description is absent
\* fails and returns no metadata object.
C23_CreateFailsWithoutNameOrDescription ==
    (call.op = "create"
        /\ (call.options.name = Undefined \/ call.options.description = Undefined))
    => call.out.threw

\* C25 (as stated): metadata created from a name and a description has equal
\* created_date and modified_date, and for version, status, tags, change_notes
\* and author the default ("1.0.0", "active", the empty sequence, "Initial
\* implementation", the default author) when the option is not supplied and
\* the supplied value otherwise.
C25_CreateDefaultsWhenNotSupplied ==
    (call.op = "create" /\ call.options.name # Undefined
        /\ call.options.description # Undefined) =>
        LET o == call.options
            m == call.out.result
        IN /\ ~call.out.threw
           /\ m.created_date = m.modified_date
           /\ m.version = (IF o.version = UndefinedVersion THEN V100 ELSE o.version)
           /\ m.status = (IF o.status = Undefined THEN "active" ELSE o.status)
           /\ m.tags = (IF o.tags = UndefinedTags THEN <<>> ELSE o.tags)
           /\ m.change_notes = (IF o.changeNotes = Undefined THEN "Initial implementation"
                                ELSE o.changeNotes)
           /\ m.author = (IF o.author = Undefined THEN "CouchDB Rules Engine" ELSE o.author)

\* C25 (amended): as above, with the default also taken when version, status,
\* change_notes or author is supplied as the empty string; tags supplied as
\* the empty sequence are kept.
C25_CreateDefaultsWhenAbsentOrEmpty ==
    (call.op = "create" /\ call.options.name # Undefined
        /\ call.options.description # Undefined) =>
        LET o == call.options
            m == call.out.result
        IN /\ ~call.out.threw
           /\ m.name = o.name /\ m.description = o.description
           /\ m.created_date = m.modified_date /\ m.created_date = call.at
           /\ m.version = (IF o.version \in {UndefinedVersion, <<>>} THEN V100 ELSE o.version)
           /\ m.status = (IF o.status \in {Undefined, ""} THEN "active" ELSE o.status)
           /\ m.tags = (IF o.tags = UndefinedTags THEN <<>> ELSE o.tags)
           /\ m.change_notes = (IF o.changeNotes \in {Undefined, ""}
                                THEN "Initial implementation" ELSE o.changeNotes)
           /\ m.author = (IF o.author \in {Undefined, ""} THEN "CouchDB Rules Engine"
                          ELSE o.author)

C25_Witness ==
    /\ call.op = "create"
    /\ call.options.name = "Test Rule"
    /\ call.options.description = "A test validation rule"
    /\ call.options.version = <<>> /\ call.out.result.version = V100
    /\ call.options.author = "Test Author" /\ call.out.result.author = "Test Author"
    /\ call.options.status = Undefined /\ call.out.result.status = "active"

\* The checks of validateMetadata that a metadata object violates, each named
\* by its message
Violations(m) ==
    (IF m.name \in {Undefined, ""} THEN {"Missing required field: name"} ELSE {})
    \cup (IF m.description \in {Undefined, ""} THEN {"Missing required field: description"} ELSE {})
    \cup (IF m.version \in {UndefinedVersion, <<>>} THEN {"Missing required field: version"} ELSE {})
    \cup (IF m.author \in {Undefined, ""} THEN {"Missing required field: author"} ELSE {})
    \cup (IF m.status \in {Undefined, ""} THEN {"Missing required field: status"} ELSE {})
    \cup (IF m.version = V10 THEN {"Invalid semantic version"} ELSE {})
    \cup (IF m.status = "invalid-status" THEN {"Invalid status"} ELSE {})
    \cup (IF m.tags = NonArrayTags THEN {"Tags must be an array"} ELSE {})
    \cup (IF m.created_date = InvalidDate THEN {"Invalid date format for created_date"} ELSE {})
    \cup (IF m.modified_date = InvalidDate THEN {"Invalid date format for modified_date"} ELSE {})

RunChars == LowerLetters \cup UpperLetters \cup {"0", "1", "2", "3", "4", "5", "6", "7", "8", "9", ".", "-"}

ReadChar(q, c) ==
    LET digit == c \in {"0", "1", "2", "3", "4", "5", "6", "7", "8", "9"}
    IN CASE q \in {0, 1} /\ digit -> 1
         [] q = 1 /\ c = "." -> 2
         [] q \in {2, 3} /\ digit -> 3
         [] q = 3 /\ c = "." -> 4
         [] q \in {4, 5} /\ digit -> 5
         [] q = 5 /\ c = "-" -> 6
         [] q \in {5, 7} /\ c = "+" -> 8
         [] q \in {6, 7} /\ c \in RunChars -> 7
         [] q \in {8, 9} /\ c \in RunChars -> 9
         [] OTHER -> 10

RECURSIVE ReadAll(_, _)
ReadAll(q, s) == IF s = <<>> THEN q ELSE ReadAll(ReadChar(q, Head(s)), Tail(s))

\* C26: isValidSemanticVersion is true exactly for MAJOR.MINOR.PATCH, three
\* non-empty digit runs, optionally followed by '-' and a non-empty run of
\* letters, digits, '.' and '-', then optionally by '+' and such a run; a
\* missing or an extra numeric segment, a leading 'v' and the empty string
\* are all refused.
C26_SemverGrammar ==
    call.op = "semver" =>
        /\ call.out <=> (ReadAll(0, call.version) \in {5, 7, 9})
        /\ call.version \in {<<>>, <<"1">>, <<"1", ".", "1">>,
                              <<"1", ".", "0", ".", "0", ".", "1">>,
                              <<"v", "1", ".", "0", ".", "0">>} => ~call.out

C26_Witness ==
    /\ call.op = "semver"
    /\ call.version = <<"1", ".", "0", ".", "0", "-", "a", "+", "a">>
    /\ call.out

\* The field a validator checks
CheckedField(d) ==
    CASE d = 1 -> "householdSize"
      [] d = 2 -> "numberOfDependents"
      [] d = 3 -> "interviewComplete"
      [] OTHER -> "income"

\* C27: on a document whose checked field is a number, householdIncome
\* returns true iff income <= 25000, householdSize iff householdSize >= 3 and
\* numberOfDependents iff numberOfDependents >= 2; otherwise the validator
\* throws an object with a forbidden reason; the document is left as it was.
C27_NumericThresholds ==
    (call.op = "rule" /\ call.rule # 3 /\ CheckedField(call.rule) \in DOMAIN call.doc) =>
        LET v == call.doc[CheckedField(call.rule)]
            accepted == CASE call.rule = 1 -> v >= 3
                          [] call.rule = 2 -> v >= 2
                          [] OTHER -> v <= 25000
        IN /\ call.out.returns <=> accepted
           /\ ~call.out.returns => call.out.forbidden # ""
           /\ arg = call.doc

C27_Witness ==
    /\ call.op = "rule" /\ call.rule = 4
    /\ "income" \in DOMAIN call.doc /\ call.doc.income = 25000
    /\ call.out.returns

C29_UnloadLeavesNoRules ==
    /\ (/\ tally.done
        /\ \A d \in ListedIds : results[d].success
        /\ otherWrites = 0) => StoredIds(remote) = {}
    /\ (upc = "done" /\ ~tally.done /\ faults = 0 /\ otherWrites = 0) => StoredIds(remote) = {}
    /\ (upc = "done" /\ ~tally.done) =>
          \A d \in Defs : results[d].state = "unlisted" /\ outstanding[d] = 0

C29_Witness ==
    /\ tally.done /\ otherWrites = 0
    /\ Cardinality(ListedIds) = NumDefs
    /\ \A d \in ListedIds : results[d].success
    /\ StoredIds(remote) = {}
====
